---- MODULE Spec2Model ----
(***************************************************************************)
(* Model of the plausible-mcp server: the plausible_query tool handler,    *)
(* its input schema, the semantic validator (validateAllParameters and the *)
(* rule functions it calls) and the filter membership search.              *)
(*                                                                         *)
(* JavaScript values whose type varies at run time are tagged records      *)
(* [k, v]: k = "u" undefined, "s" string, "n" number, "b" boolean,         *)
(* "a" array (v a sequence), "o" object (v a record).  Arrays of strings   *)
(* whose element type is fixed by the code (metrics, dimensions, the two   *)
(* dates of a custom range) hold plain strings.                            *)
(***************************************************************************)
EXTENDS Integers, Sequences, FiniteSets, TLC

VARIABLES pc, params, schemaIssues, ran, validationError, fetched, content, search, env,
          api

vars == <<pc, params, schemaIssues, ran, validationError, fetched, content, search,
          env, api>>

-----------------------------------------------------------------------------
(* Bounds of the model *)

MaxMetrics == 2
MaxDims == 2
MaxDepth == 2

-----------------------------------------------------------------------------
(* JavaScript values *)

U == [k |-> "u", v |-> ""]
S(str) == [k |-> "s", v |-> str]
N(num) == [k |-> "n", v |-> num]
B(bool) == [k |-> "b", v |-> bool]
A(seq) == [k |-> "a", v |-> seq]
O(rec) == [k |-> "o", v |-> rec]

\* value[i] with a 0-based index: an element of an array, a character of a
\* string, undefined otherwise
Idx(value, i) ==
  IF value.k = "a" /\ i + 1 <= Len(value.v) THEN value.v[i + 1]
  ELSE IF value.k = "s" /\ i + 1 <= Len(value.v) THEN S(SubSeq(value.v, i + 1, i + 1))
  ELSE U

\* String.prototype.startsWith
startsWith(str, prefix) ==
  Len(str) >= Len(prefix) /\ SubSeq(str, 1, Len(prefix)) = prefix

\* Array.prototype.filter on a sequence
RECURSIVE filterSeq(_, _)
filterSeq(seq, keep) ==
  IF seq = <<>> THEN <<>>
  ELSE (IF Head(seq) \in keep THEN <<Head(seq)>> ELSE <<>>) \o filterSeq(Tail(seq), keep)

\* Array.prototype.join(', ') on a sequence of strings
RECURSIVE join(_)
join(seq) ==
  IF seq = <<>> THEN ""
  ELSE IF Len(seq) = 1 THEN seq[1]
  ELSE seq[1] \o ", " \o join(Tail(seq))

includes(seq, x) == \E i \in 1..Len(seq) : seq[i] = x

\* the sequences over pool of length at most n
SeqsUpTo(pool, n) == UNION {[1..len -> pool] : len \in 0..n}

-----------------------------------------------------------------------------
(* constants.ts *)

predefinedDateRanges ==
  <<"day", "7d", "28d", "30d", "91d", "month", "6mo", "12mo", "year", "all">>

validMetrics ==
  <<"visitors", "visits", "pageviews", "views_per_visit", "bounce_rate",
    "visit_duration", "events", "scroll_depth", "percentage",
    "conversion_rate", "group_conversion_rate", "average_revenue",
    "total_revenue", "time_on_page">>

eventDimensions == <<"event:goal", "event:page", "event:hostname">>

visitDimensions ==
  <<"visit:entry_page", "visit:exit_page", "visit:source", "visit:referrer",
    "visit:channel", "visit:utm_medium", "visit:utm_source", "visit:utm_campaign",
    "visit:utm_content", "visit:utm_term", "visit:device", "visit:browser",
    "visit:browser_version", "visit:os", "visit:os_version", "visit:country",
    "visit:region", "visit:city", "visit:country_name", "visit:region_name",
    "visit:city_name">>

timeDimensions == <<"time", "time:hour", "time:day", "time:week", "time:month">>

filterOperators ==
  <<"is", "is_not", "contains", "contains_not", "matches", "matches_not">>

logicalOperators == <<"and", "or", "not">>

behavioralOperators == <<"has_done", "has_not_done">>

sessionMetrics == <<"bounce_rate", "views_per_visit", "visit_duration">>

Range(seq) == {seq[i] : i \in 1..Len(seq)}

-----------------------------------------------------------------------------
(* ValidationError values; Null is the null validateAllParameters returns *)

Null == [name |-> "null", message |-> "", details |-> ""]

ValidationError(message, details) ==
  [name |-> "ValidationError", message |-> message, details |-> details]

-----------------------------------------------------------------------------
(* Dates: the isoDate pattern and the Date constructor *)

Digits == <<"0", "1", "2", "3", "4", "5", "6", "7", "8", "9">>

ch(str, i) == SubSeq(str, i, i)

isDigit(c) == includes(Digits, c)

digitVal(c) == CHOOSE n \in 0..9 : Digits[n + 1] = c

allDigits(str, from, to) == \A i \in from..to : isDigit(ch(str, i))

RECURSIVE toInt(_, _, _)
toInt(str, from, to) ==
  IF from > to THEN 0
  ELSE toInt(str, from, to - 1) * 10 + digitVal(ch(str, to))

\* /^\d{4}-\d{2}-\d{2}(T\d{2}:\d{2}:\d{2}[+-]\d{2}:\d{2})?$/
isoDateDatePart(str) ==
  /\ allDigits(str, 1, 4) /\ ch(str, 5) = "-"
  /\ allDigits(str, 6, 7) /\ ch(str, 8) = "-"
  /\ allDigits(str, 9, 10)

isoDateTimePart(str) ==
  /\ ch(str, 11) = "T"
  /\ allDigits(str, 12, 13) /\ ch(str, 14) = ":"
  /\ allDigits(str, 15, 16) /\ ch(str, 17) = ":"
  /\ allDigits(str, 18, 19)
  /\ ch(str, 20) \in {"+", "-"}
  /\ allDigits(str, 21, 22) /\ ch(str, 23) = ":"
  /\ allDigits(str, 24, 25)

isoDate(str) ==
  \/ Len(str) = 10 /\ isoDateDatePart(str)
  \/ Len(str) = 25 /\ isoDateDatePart(str) /\ isoDateTimePart(str)

isLeapYear(y) == (y % 4 = 0 /\ y % 100 # 0) \/ y % 400 = 0

daysInMonths(y) ==
  <<31, IF isLeapYear(y) THEN 29 ELSE 28, 31, 30, 31, 30, 31, 31, 30, 31, 30, 31>>

RECURSIVE sumFirst(_, _)
sumFirst(seq, n) == IF n = 0 THEN 0 ELSE sumFirst(seq, n - 1) + seq[n]

\* days from 1970-01-01 to the first day of year y
daysBeforeYear(y) ==
  365 * (y - 1970)
    + ((y - 1) \div 4 - 1969 \div 4)
    - ((y - 1) \div 100 - 1969 \div 100)
    + ((y - 1) \div 400 - 1969 \div 400)

\* the time value of a Date, in seconds; NaN for an Invalid Date
NaN == [nan |-> TRUE, t |-> 0]
timeValue(t) == [nan |-> FALSE, t |-> t]

\* new Date(str) for the two ISO forms the tool documents: a date-only form
\* is UTC midnight, a date-time form carries its own offset; a day past the
\* end of its month rolls over into the next one; any other text is an
\* Invalid Date
Date(str) ==
  IF ~isoDate(str) THEN NaN
  ELSE
    LET year == toInt(str, 1, 4)
        month == toInt(str, 6, 7)
        day == toInt(str, 9, 10)
        hasTime == Len(str) = 25
        hour == IF hasTime THEN toInt(str, 12, 13) ELSE 0
        minute == IF hasTime THEN toInt(str, 15, 16) ELSE 0
        second == IF hasTime THEN toInt(str, 18, 19) ELSE 0
        tzSign == IF hasTime /\ ch(str, 20) = "-" THEN -1 ELSE 1
        tzHour == IF hasTime THEN toInt(str, 21, 22) ELSE 0
        tzMinute == IF hasTime THEN toInt(str, 24, 25) ELSE 0
    IN IF \/ month < 1 \/ month > 12 \/ day < 1 \/ day > 31
          \/ hour > 23 \/ minute > 59 \/ second > 59
          \/ tzHour > 23 \/ tzMinute > 59
       THEN NaN
       ELSE timeValue(
              (daysBeforeYear(year) + sumFirst(daysInMonths(year), month - 1) + day - 1) * 86400
              + hour * 3600 + minute * 60 + second
              - tzSign * (tzHour * 3600 + tzMinute * 60))

\* startDate >= endDate on two Dates: false when either is Invalid
dateGreaterOrEqual(a, b) == ~a.nan /\ ~b.nan /\ a.t >= b.t

\* new Date(start) < new Date(end)
dateLess(a, b) == ~a.nan /\ ~b.nan /\ a.t < b.t

-----------------------------------------------------------------------------
(* Filter membership search (index.ts, operator-first filters).  A result  *)
(* is B(TRUE) or B(FALSE), or TypeError when JavaScript throws one.        *)

TypeError == [k |-> "throw", v |-> "TypeError"]

\* Helper to check simple filter: filter[1] === dimension
checkSimpleFilter(filter, dimension) == B(Idx(filter, 1) = S(dimension))

\* Helper to check behavioral filter: filter[1][1] === dimension
checkBehavioralFilter(filter, dimension) ==
  IF Idx(filter, 1) = U THEN TypeError
  ELSE B(Idx(Idx(filter, 1), 1) = S(dimension))

RECURSIVE hasFilterForDimension(_, _), checkSingleFilter(_, _), someFilter(_, _, _)

\* checkSingleFilter that does not look inside a 'not'
checkSingleFilterSkipsNot(filter, dimension) ==
  IF filter = U THEN TypeError
  ELSE
    LET operator == Idx(filter, 0) IN
    IF operator = S("and") \/ operator = S("or")
      THEN hasFilterForDimension(Idx(filter, 1), dimension)
    ELSE IF operator = S("not")
      THEN B(FALSE)
    ELSE IF operator = S("has_done") \/ operator = S("has_not_done")
      THEN checkBehavioralFilter(filter, dimension)
    ELSE IF operator = S("is") /\ Idx(filter, 1) = S("segment")
      THEN B(FALSE)
    ELSE checkSimpleFilter(filter, dimension)

\* checkSingleFilter that recurses into 'and' but handles 'or' as a Simple filter
checkSingleFilterAndOnly(filter, dimension) ==
  IF filter = U THEN TypeError
  ELSE
    LET operator == Idx(filter, 0) IN
    IF operator = S("and")
      THEN hasFilterForDimension(Idx(filter, 1), dimension)
    ELSE IF operator = S("not")
      THEN hasFilterForDimension(A(<<Idx(filter, 1)>>), dimension)
    ELSE IF operator = S("has_done") \/ operator = S("has_not_done")
      THEN checkBehavioralFilter(filter, dimension)
    ELSE IF operator = S("is") /\ Idx(filter, 1) = S("segment")
      THEN B(FALSE)
    ELSE checkSimpleFilter(filter, dimension)

\* Helper to check single filter
checkSingleFilter(filter, dimension) ==
  IF filter = U THEN TypeError
  ELSE
    LET operator == Idx(filter, 0) IN
    IF operator = S("and") \/ operator = S("or")
      THEN hasFilterForDimension(Idx(filter, 1), dimension)
    ELSE IF operator = S("not")
      THEN hasFilterForDimension(A(<<Idx(filter, 1)>>), dimension)
    ELSE IF operator = S("has_done") \/ operator = S("has_not_done")
      THEN checkBehavioralFilter(filter, dimension)
    ELSE IF operator = S("is") /\ Idx(filter, 1) = S("segment")
      THEN B(FALSE)
    ELSE checkSimpleFilter(filter, dimension)

\* filters.some(filter => checkSingleFilter(filter, dimension)), from the
\* i-th filter on: stops at the first match, and at the first throw
someFilter(filters, i, dimension) ==
  IF i > Len(filters) THEN B(FALSE)
  ELSE LET r == checkSingleFilter(filters[i], dimension) IN
       IF r = TypeError \/ r = B(TRUE) THEN r
       ELSE someFilter(filters, i + 1, dimension)

\* Helper function to check if filters contain a specific dimension
hasFilterForDimension(filters, dimension) ==
  IF filters = U THEN B(FALSE)
  ELSE IF filters.k \in {"a", "s"} /\ Len(filters.v) = 0 THEN B(FALSE)
  ELSE IF filters.k # "a" THEN TypeError
  ELSE someFilter(filters.v, 1, dimension)

-----------------------------------------------------------------------------
(* Filter membership search (utils.ts, dimension-first filters, the shape  *)
(* of a node taken from its length)                                        *)

\* Array.prototype.join(',') on a sequence of strings
RECURSIVE joinComma(_)
joinComma(seq) ==
  IF seq = <<>> THEN ""
  ELSE IF Len(seq) = 1 THEN seq[1]
  ELSE seq[1] \o "," \o joinComma(Tail(seq))

\* the string a template literal makes of a value
RECURSIVE jsString(_)
jsString(value) ==
  CASE value.k = "s" -> value.v
    [] value.k = "u" -> "undefined"
    [] value.k = "n" -> ToString(value.v)
    [] value.k = "b" -> (IF value.v THEN "true" ELSE "false")
    [] value.k = "a" -> joinComma([i \in 1..Len(value.v) |-> jsString(value.v[i])])
    [] OTHER -> "[object Object]"

\* const [filterDimension] = filter; return filterDimension === dimension
utils_checkSimpleFilter(filter, dimension) == B(Idx(filter, 0) = S(dimension))

\* const [, type] = filter; return dimension === `event:${type}`
utils_checkBehavioralFilter(filter, dimension) ==
  B(dimension = "event:" \o jsString(Idx(filter, 1)))

RECURSIVE utils_checkSingleFilter(_, _), utils_someFilter(_, _, _)

utils_checkSingleFilter(filter, dimension) ==
  IF filter.k # "a" THEN B(FALSE)
  \* a logical filter [operator, [...filters]] (length 2)
  ELSE IF Len(filter.v) = 2 /\ Idx(filter, 1).k = "a"
    THEN utils_someFilter(Idx(filter, 1).v, 1, dimension)
  ELSE IF Len(filter.v) = 3
    THEN IF Idx(filter, 0) = S("has_done") \/ Idx(filter, 0) = S("has_not_done")
           THEN utils_checkBehavioralFilter(filter, dimension)
         ELSE IF Idx(filter, 0).k = "s"
           THEN utils_checkSimpleFilter(filter, dimension)
         ELSE B(FALSE)
  ELSE B(FALSE)

\* filters.some(f => checkSingleFilter(f, dimension)), from the i-th on
utils_someFilter(filters, i, dimension) ==
  IF i > Len(filters) THEN B(FALSE)
  ELSE IF utils_checkSingleFilter(filters[i], dimension) = B(TRUE) THEN B(TRUE)
  ELSE utils_someFilter(filters, i + 1, dimension)

utils_hasFilterForDimension(filters, dimension) ==
  IF filters = U \/ dimension = "" THEN B(FALSE)
  ELSE IF filters.k # "a" THEN TypeError
  ELSE utils_someFilter(filters.v, 1, dimension)

-----------------------------------------------------------------------------
(* Validation functions (index.ts).  Each returns Null when it returns     *)
(* normally, and otherwise the error it throws.                            *)

thrownTypeError == [name |-> "TypeError", message |-> "", details |-> ""]

\* dimensions?.some(d => d === name) ?? false
someDimensionIs(dimensions, name) ==
  dimensions # U /\ includes(dimensions.v, name)

\* validatePercentageMetric with the empty-list test left out
validatePercentageMetricUndefinedOnly(metrics, dimensions) ==
  IF includes(metrics, "percentage") /\ dimensions = U
  THEN ValidationError(
         "Metric 'percentage' requires dimensions",
         "The 'percentage' metric calculates the percentage of visitors in each dimension group and requires at least one dimension to be specified.")
  ELSE Null

validatePercentageMetric(metrics, dimensions) ==
  IF includes(metrics, "percentage") /\ (dimensions = U \/ Len(dimensions.v) = 0)
  THEN ValidationError(
         "Metric 'percentage' requires dimensions",
         "The 'percentage' metric calculates the percentage of visitors in each dimension group and requires at least one dimension to be specified.")
  ELSE Null

\* validatePageMetrics looking at the dimensions only
validatePageMetricsDimensionOnly(metrics, dimensions, filters) ==
  LET pageMetrics == filterSeq(metrics, {"scroll_depth", "time_on_page"}) IN
  IF Len(pageMetrics) > 0 /\ ~someDimensionIs(dimensions, "event:page")
  THEN ValidationError(
         "Metrics " \o join(pageMetrics) \o " require event:page",
         "These metrics require either an 'event:page' dimension or filter to calculate page-specific metrics.")
  ELSE Null

validatePageMetrics(metrics, dimensions, filters) ==
  LET pageMetrics == filterSeq(metrics, {"scroll_depth", "time_on_page"}) IN
  IF Len(pageMetrics) > 0
  THEN LET hasPageDimension == someDimensionIs(dimensions, "event:page")
           hasPageFilter == hasFilterForDimension(filters, "event:page")
       IN IF hasPageFilter = TypeError THEN thrownTypeError
          ELSE IF ~hasPageDimension /\ ~hasPageFilter.v
          THEN ValidationError(
                 "Metrics " \o join(pageMetrics) \o " require event:page",
                 "These metrics require either an 'event:page' dimension or filter to calculate page-specific metrics.")
          ELSE Null
  ELSE Null

\* validateGoalMetrics that forgets group_conversion_rate
validateGoalMetricsConversionRateOnly(metrics, dimensions, filters) ==
  LET goalMetrics == filterSeq(metrics, {"conversion_rate"}) IN
  IF /\ Len(goalMetrics) > 0
     /\ ~someDimensionIs(dimensions, "event:goal")
     /\ hasFilterForDimension(filters, "event:goal") = B(FALSE)
  THEN ValidationError(
         "Metrics " \o join(goalMetrics) \o " require event:goal",
         "These metrics require either an 'event:goal' dimension or filter. You need to set up goals in Plausible first.")
  ELSE Null

validateGoalMetrics(metrics, dimensions, filters) ==
  LET goalMetrics == filterSeq(metrics, {"conversion_rate", "group_conversion_rate"}) IN
  IF Len(goalMetrics) > 0
  THEN LET hasGoalDimension == someDimensionIs(dimensions, "event:goal")
           hasGoalFilter == hasFilterForDimension(filters, "event:goal")
       IN IF hasGoalFilter = TypeError THEN thrownTypeError
          ELSE IF ~hasGoalDimension /\ ~hasGoalFilter.v
          THEN ValidationError(
                 "Metrics " \o join(goalMetrics) \o " require event:goal",
                 "These metrics require either an 'event:goal' dimension or filter. You need to set up goals in Plausible first.")
          ELSE Null
  ELSE Null

validateRevenueMetrics(metrics, dimensions, filters) ==
  LET revenueMetrics == filterSeq(metrics, {"average_revenue", "total_revenue"}) IN
  IF Len(revenueMetrics) > 0
  THEN LET hasGoalDimension == someDimensionIs(dimensions, "event:goal")
           hasGoalFilter == hasFilterForDimension(filters, "event:goal")
       IN IF hasGoalFilter = TypeError THEN thrownTypeError
          ELSE IF ~hasGoalDimension /\ ~hasGoalFilter.v
          THEN ValidationError(
                 "Metrics " \o join(revenueMetrics) \o " require revenue goal",
                 "Revenue metrics require a revenue goal to be specified. Ensure you have revenue goals configured in Plausible and use an 'event:goal' dimension or filter.")
          ELSE Null
  ELSE Null

\* d.startsWith('event:') || d.startsWith('time:')
isEventOrTimeDimension(d) == startsWith(d, "event:") \/ startsWith(d, "time:")

eventPrefixed(dimensions) ==
  {dimensions[i] : i \in {j \in 1..Len(dimensions) : startsWith(dimensions[j], "event:")}}

\* validateSessionMetricsWithEventDimensions that tests the 'event:' prefix only
validateSessionMetricsEventPrefixOnly(metrics, dimensions) ==
  IF /\ \E i \in 1..Len(metrics) : includes(sessionMetrics, metrics[i])
     /\ dimensions # U
     /\ \E i \in 1..Len(dimensions.v) : startsWith(dimensions.v[i], "event:")
  THEN ValidationError(
         "Session metrics cannot be mixed with event dimensions",
         "Session metrics (" \o join(filterSeq(metrics, Range(sessionMetrics)))
           \o ") calculate values per visit/session and cannot be used with event-level dimensions ("
           \o join(filterSeq(dimensions.v, eventPrefixed(dimensions.v)))
           \o "). Use visit dimensions instead.")
  ELSE Null

\* validateSessionMetricsWithEventDimensions that tests the prefix 'time'
\* without its colon
validateSessionMetricsTimePrefix(metrics, dimensions) ==
  IF /\ \E i \in 1..Len(metrics) : includes(sessionMetrics, metrics[i])
     /\ dimensions # U
     /\ \E i \in 1..Len(dimensions.v) :
          startsWith(dimensions.v[i], "event:") \/ startsWith(dimensions.v[i], "time")
  THEN ValidationError(
         "Session metrics cannot be mixed with event dimensions",
         "Session metrics (" \o join(filterSeq(metrics, Range(sessionMetrics)))
           \o ") calculate values per visit/session and cannot be used with event-level dimensions ("
           \o join(filterSeq(dimensions.v, eventPrefixed(dimensions.v)))
           \o "). Use visit dimensions instead.")
  ELSE Null

validateSessionMetricsWithEventDimensions(metrics, dimensions) ==
  LET hasSessionMetrics == \E i \in 1..Len(metrics) : includes(sessionMetrics, metrics[i])
      hasEventDimensions ==
        dimensions # U /\ \E i \in 1..Len(dimensions.v) : isEventOrTimeDimension(dimensions.v[i])
  IN IF hasSessionMetrics /\ hasEventDimensions
     THEN LET sessionMetricsUsed == filterSeq(metrics, Range(sessionMetrics))
              eventDimensionsUsed ==
                IF dimensions = U THEN <<>>
                ELSE filterSeq(dimensions.v, eventPrefixed(dimensions.v))
          IN ValidationError(
               "Session metrics cannot be mixed with event dimensions",
               "Session metrics (" \o join(sessionMetricsUsed)
                 \o ") calculate values per visit/session and cannot be used with event-level dimensions ("
                 \o join(eventDimensionsUsed) \o "). Use visit dimensions instead.")
     ELSE Null

\* include?.time_labels === true
timeLabelsRequested(include) ==
  include # U /\ include.v.time_labels = B(TRUE)

\* validateTimeLabelRequirements that forgets the bare 'time' dimension
validateTimeLabelRequirementsPrefixOnly(include, dimensions) ==
  IF /\ timeLabelsRequested(include)
     /\ ~(dimensions # U /\ \E i \in 1..Len(dimensions.v) : startsWith(dimensions.v[i], "time:"))
  THEN ValidationError(
         "time_labels requires a time dimension",
         "The 'include.time_labels' option requires a time dimension (e.g., 'time', 'time:day', 'time:hour') to generate time labels.")
  ELSE Null

validateTimeLabelRequirements(include, dimensions) ==
  IF timeLabelsRequested(include)
  THEN LET dims == IF dimensions = U THEN <<>> ELSE dimensions.v
           hasTimeDimension ==
             \E i \in 1..Len(dims) : dims[i] = "time" \/ startsWith(dims[i], "time:")
       IN IF ~hasTimeDimension
          THEN ValidationError(
                 "time_labels requires a time dimension",
                 "The 'include.time_labels' option requires a time dimension (e.g., 'time', 'time:day', 'time:hour') to generate time labels.")
          ELSE Null
  ELSE Null

\* the i-th element of a custom range, as text in a template string
dateAt(dateRange, i) == IF i <= Len(dateRange.v) THEN dateRange.v[i] ELSE "undefined"

\* validateDateRange that lets a range of equal dates through (> for >=)
validateDateRangeAcceptsTies(dateRange) ==
  IF dateRange.k = "a"
  THEN LET startDate == Date(dateAt(dateRange, 1))
           endDate == Date(dateAt(dateRange, 2))
       IN IF startDate.nan \/ endDate.nan
          THEN ValidationError(
                 "Invalid date format in date range",
                 "Custom date ranges must be in ISO8601 format (YYYY-MM-DD or YYYY-MM-DDTHH:mm:ss+TZ:TZ)")
          ELSE IF startDate.t > endDate.t
          THEN ValidationError(
                 "Invalid date range",
                 "Start date (" \o dateAt(dateRange, 1) \o ") must be before end date ("
                   \o dateAt(dateRange, 2) \o ")")
          ELSE Null
  ELSE Null

validateDateRange(dateRange) ==
  IF dateRange.k = "a"
  THEN LET start == dateAt(dateRange, 1)
           end == dateAt(dateRange, 2)
           startDate == Date(start)
           endDate == Date(end)
       IN IF startDate.nan \/ endDate.nan
          THEN ValidationError(
                 "Invalid date format in date range",
                 "Custom date ranges must be in ISO8601 format (YYYY-MM-DD or YYYY-MM-DDTHH:mm:ss+TZ:TZ)")
          ELSE IF dateGreaterOrEqual(startDate, endDate)
          THEN ValidationError(
                 "Invalid date range",
                 "Start date (" \o start \o ") must be before end date (" \o end \o ")")
          ELSE Null
  ELSE Null

\* the first error thrown by a sequence of calls, Null when none throws
RECURSIVE firstError(_)
firstError(results) ==
  IF results = <<>> THEN Null
  ELSE IF Head(results) # Null THEN Head(results)
  ELSE firstError(Tail(results))

\* validateMetricRequirements calling the page rule before the percentage rule
validateMetricRequirementsPageFirst(metrics, dimensions, filters) ==
  firstError(<<validatePageMetrics(metrics, dimensions, filters),
               validatePercentageMetric(metrics, dimensions),
               validateGoalMetrics(metrics, dimensions, filters),
               validateRevenueMetrics(metrics, dimensions, filters)>>)

validateMetricRequirements(metrics, dimensions, filters) ==
  firstError(<<validatePercentageMetric(metrics, dimensions),
               validatePageMetrics(metrics, dimensions, filters),
               validateGoalMetrics(metrics, dimensions, filters),
               validateRevenueMetrics(metrics, dimensions, filters)>>)

\* Validate all parameters and return error if any: the returned value is
\* a ValidationError or Null; any other error is thrown on to the caller
\* validateAllParameters whose catch block returns null for an exception
\* that is no ValidationError
validateAllParametersSwallows(p) ==
  LET error == firstError(<<validateDateRange(p.dateRange),
                            validateMetricRequirements(p.metrics, p.dimensions, p.filters),
                            validateSessionMetricsWithEventDimensions(p.metrics, p.dimensions),
                            validateTimeLabelRequirements(p.include, p.dimensions)>>)
  IN IF error.name = "ValidationError" THEN [returned |-> error, thrown |-> Null]
     ELSE [returned |-> Null, thrown |-> Null]

validateAllParameters(p) ==
  LET error == firstError(<<validateDateRange(p.dateRange),
                            validateMetricRequirements(p.metrics, p.dimensions, p.filters),
                            validateSessionMetricsWithEventDimensions(p.metrics, p.dimensions),
                            validateTimeLabelRequirements(p.include, p.dimensions)>>)
  IN IF error.name = "ValidationError" THEN [returned |-> error, thrown |-> Null]
     ELSE [returned |-> Null, thrown |-> error]

\* the rule functions in the order validateAllParameters reaches them
rulesInOrder(p) ==
  <<[rule |-> "validateDateRange", error |-> validateDateRange(p.dateRange)],
    [rule |-> "validatePercentageMetric", error |-> validatePercentageMetric(p.metrics, p.dimensions)],
    [rule |-> "validatePageMetrics", error |-> validatePageMetrics(p.metrics, p.dimensions, p.filters)],
    [rule |-> "validateGoalMetrics", error |-> validateGoalMetrics(p.metrics, p.dimensions, p.filters)],
    [rule |-> "validateRevenueMetrics", error |-> validateRevenueMetrics(p.metrics, p.dimensions, p.filters)],
    [rule |-> "validateSessionMetricsWithEventDimensions",
     error |-> validateSessionMetricsWithEventDimensions(p.metrics, p.dimensions)],
    [rule |-> "validateTimeLabelRequirements",
     error |-> validateTimeLabelRequirements(p.include, p.dimensions)]>>

\* the calls made before the try block is left: every rule up to and
\* including the first one that throws
rulesRun(p) ==
  LET all == rulesInOrder(p)
      failing == {i \in 1..Len(all) : all[i].error # Null}
      last == IF failing = {} THEN Len(all)
              ELSE CHOOSE i \in failing : \A j \in failing : i <= j
  IN SubSeq(all, 1, last)

\* the arguments the tool handler hands to validateAllParameters
validatorArguments(q) ==
  [metrics |-> q.metrics.v, dimensions |-> q.dimensions, filters |-> q.filters,
   include |-> q.include, dateRange |-> q.date_range]

-----------------------------------------------------------------------------
(* The input schema of the plausible_query tool (zod) *)

isString(value) == value.k = "s"

isNumber(value) == value.k = "n"

isArray(value) == value.k = "a"

\* z.array(z.string())
isArrayOfStrings(value) ==
  isArray(value) /\ \A i \in 1..Len(value.v) : isString(value.v[i])

\* z.array(z.number())
isArrayOfNumbers(value) ==
  isArray(value) /\ \A i \in 1..Len(value.v) : isNumber(value.v[i])

isOneOf(value, names) == value.k = "s" /\ includes(names, value.v)

\* a datePair whose refinement lets equal instants through (<= for <)
datePairAcceptsTies(value) ==
  /\ value.k = "a"
  /\ Len(value.v) = 2
  /\ \A i \in 1..2 : isoDate(value.v[i])
  /\ ~Date(value.v[1]).nan /\ ~Date(value.v[2]).nan
  /\ Date(value.v[1]).t <= Date(value.v[2]).t

\* z.array(isoDate).length(2).refine(new Date(start) < new Date(end))
datePair(value) ==
  /\ value.k = "a"
  /\ Len(value.v) = 2
  /\ \A i \in 1..2 : isoDate(value.v[i])
  /\ dateLess(Date(value.v[1]), Date(value.v[2]))

\* a date_range schema that takes any string for a named range
dateRangeSchemaAnyName(value) == isString(value) \/ datePair(value)

\* z.union([z.enum(predefinedDateRanges), datePair])
dateRangeSchema(value) ==
  isOneOf(value, predefinedDateRanges) \/ datePair(value)

dimensionSchema(d) ==
  \/ includes(eventDimensions, d)
  \/ includes(visitDimensions, d)
  \/ includes(timeDimensions, d)
  \/ startsWith(d, "event:props:")

caseSensitiveOption(value) ==
  value.k = "o" /\ value.v.case_sensitive \in {U, B(TRUE), B(FALSE)}

simpleFilterSchema(f) ==
  /\ f.k = "a"
  /\ Len(f.v) \in {3, 4}
  /\ isOneOf(f.v[1], filterOperators)
  /\ isString(f.v[2])
  /\ isArrayOfStrings(f.v[3])
  /\ Len(f.v) = 4 => caseSensitiveOption(f.v[4])

segmentFilterSchema(f) ==
  /\ f.k = "a"
  /\ Len(f.v) = 3
  /\ f.v[1] = S("is")
  /\ f.v[2] = S("segment")
  /\ isArrayOfNumbers(f.v[3])

RECURSIVE filterSchema(_)
filterSchema(f) ==
  \/ simpleFilterSchema(f)
  \/ segmentFilterSchema(f)
  \/ /\ f.k = "a"
     /\ Len(f.v) = 2
     /\ isOneOf(f.v[1], logicalOperators)
     /\ isArray(f.v[2])
     /\ \A i \in 1..Len(f.v[2].v) : filterSchema(f.v[2].v[i])
  \/ /\ f.k = "a"
     /\ Len(f.v) = 2
     /\ isOneOf(f.v[1], behavioralOperators)
     /\ simpleFilterSchema(f.v[2])

includeSchema(value) ==
  value.k = "o" /\ value.v.time_labels \in {U, B(TRUE), B(FALSE)}

\* z.object({ limit: z.number().optional().default(10000),
\*            offset: z.number().optional().default(0) })
paginationSchema(value) ==
  /\ value.k = "o"
  /\ value.v.limit = U \/ isNumber(value.v.limit)
  /\ value.v.offset = U \/ isNumber(value.v.offset)

\* z.array(z.enum(validMetrics)).min(1)
metricsSchema(value) ==
  /\ isArray(value)
  /\ \A i \in 1..Len(value.v) : includes(validMetrics, value.v[i])
  /\ Len(value.v) >= 1

\* z.array(dimensionSchema)
dimensionsSchema(value) ==
  isArray(value) /\ \A i \in 1..Len(value.v) : dimensionSchema(value.v[i])

\* z.array(filterSchema)
filtersSchema(value) ==
  isArray(value) /\ \A i \in 1..Len(value.v) : filterSchema(value.v[i])

\* the fields of the raw arguments the schema has an issue with
schemaCheck(args) ==
  {field \in {"site_id", "metrics", "date_range", "dimensions", "filters", "include",
              "pagination"} :
     \/ field = "site_id" /\ ~(isString(args.site_id) /\ Len(args.site_id.v) >= 1)
     \/ field = "metrics" /\ ~metricsSchema(args.metrics)
     \/ field = "date_range" /\ ~dateRangeSchema(args.date_range)
     \/ field = "dimensions" /\ ~(args.dimensions = U \/ dimensionsSchema(args.dimensions))
     \/ field = "filters" /\ ~(args.filters = U \/ filtersSchema(args.filters))
     \/ field = "include" /\ ~(args.include = U \/ includeSchema(args.include))
     \/ field = "pagination" /\ ~(args.pagination = U \/ paginationSchema(args.pagination))}

\* what the schema hands to the handler for arguments that conform: the
\* defaults of pagination are filled in
schemaParse(args) ==
  IF args.pagination = U THEN args
  ELSE [args EXCEPT !.pagination =
          O([limit |-> IF args.pagination.v.limit = U THEN N(10000)
                       ELSE args.pagination.v.limit,
             offset |-> IF args.pagination.v.offset = U THEN N(0)
                        ELSE args.pagination.v.offset])]

-----------------------------------------------------------------------------
(* The values the model draws queries from *)

DimensionPool == {"visit:source", "time", "time:day", "timezone"}

MetricLists(pool) == {A(m) : m \in SeqsUpTo(pool, MaxMetrics)}

DimensionLists(pool) == {U} \cup {A(d) : d \in SeqsUpTo(pool, MaxDims)}

\* operator-first filters, the shape of index.ts and of the README
pageFilter == A(<<S("is"), S("event:page"), A(<<S("/x")>>)>>)
goalFilter == A(<<S("is"), S("event:goal"), A(<<S("Signup")>>)>>)
countryFilter == A(<<S("contains"), S("visit:country"), A(<<S("united")>>)>>)
segmentFilter == A(<<S("is"), S("segment"), A(<<N(1)>>)>>)

notPageFilter == A(<<S("not"), pageFilter>>)
hasDonePageFilter == A(<<S("has_done"), pageFilter>>)
andGoalFilter == A(<<S("and"), A(<<countryFilter, goalFilter>>)>>)

\* dimension-first filters, the shape of types.ts
pageFilterDimensionFirst == A(<<S("event:page"), S("is"), A(<<S("/x")>>)>>)

\* A filter expression, written in both shapes, with the dimensions its
\* Simple filters and behavioral payloads constrain.
\*   operatorFirst:  [op, dimension, values], [and|or, [children]],
\*                   [not, child], [has_done, [op, dimension, values]]
\*   dimensionFirst: [dimension, op, values], [and|or|not, [children]],
\*                   [has_done, "goal"|"page", value]
simpleOn(d) ==
  [operatorFirst |-> A(<<S("is"), S(d), A(<<S("x")>>)>>),
   dimensionFirst |-> A(<<S(d), S("is"), A(<<S("x")>>)>>),
   targets |-> {d}]

segmentOf ==
  [operatorFirst |-> segmentFilter, dimensionFirst |-> segmentFilter, targets |-> {}]

behavioralOn(op, type) ==
  [operatorFirst |-> A(<<S(op), A(<<S("is"), S("event:" \o type), A(<<S("x")>>)>>)>>),
   dimensionFirst |-> A(<<S(op), S(type), S("x")>>),
   targets |-> {"event:" \o type}]

logicalOf(op, children) ==
  [operatorFirst |->
     A(<<S(op), A([i \in 1..Len(children) |-> children[i].operatorFirst])>>),
   dimensionFirst |->
     A(<<S(op), A([i \in 1..Len(children) |-> children[i].dimensionFirst])>>),
   targets |-> UNION {children[i].targets : i \in 1..Len(children)}]

notOf(child) ==
  [operatorFirst |-> A(<<S("not"), child.operatorFirst>>),
   dimensionFirst |-> A(<<S("not"), A(<<child.dimensionFirst>>)>>),
   targets |-> child.targets]

FilterLeaves ==
  {simpleOn("event:page"), simpleOn("event:goal"), simpleOn("visit:country"),
   segmentOf, behavioralOn("has_done", "goal"), behavioralOn("has_not_done", "page")}

\* the filter expressions with at most depth wrappers around a leaf
RECURSIVE FilterTrees(_)
FilterTrees(depth) ==
  IF depth = 0 THEN FilterLeaves
  ELSE LET inner == FilterTrees(depth - 1) IN
       inner
         \cup {notOf(t) : t \in inner}
         \cup {logicalOf(op, <<>>) : op \in {"and", "or"}}
         \cup {logicalOf(op, <<t>>) : op \in {"and", "or"}, t \in inner}
         \cup {logicalOf(op, <<segmentOf, t>>) : op \in {"and", "or"}, t \in inner}
         \cup {logicalOf(op, <<t, simpleOn("visit:country")>>) :
                 op \in {"and", "or"}, t \in inner}

\* nodes that are no filter expression of either shape
MalformedNodes ==
  {A(<<>>), A(<<S("is")>>), A(<<S("is"), S("event:page")>>),
   A(<<S("has_done")>>), A(<<S("has_not_done"), S("goal")>>),
   A(<<S("and")>>), A(<<S("and"), S("event:page")>>),
   S("event:page"), N(5), B(TRUE),
   A(<<S("xor"), A(<<pageFilter>>)>>),
   A(<<S("xor"), A(<<pageFilterDimensionFirst>>)>>),
   A(<<S("event:page"), S("is"), A(<<S("/x")>>), S("extra"), S("more")>>)}

\* the names a search is made for
SearchDimensions ==
  {"event:page", "event:goal", "visit:country", "Event:Page", "is", "segment"}

\* the forests a search is made over: each with the shape it is written in
\* and the dimensions it constrains
SearchInputs ==
  {[shape |-> sh, filters |-> f, targets |-> {}] :
     sh \in {"operator-first", "dimension-first"}, f \in {U, A(<<>>)}}
  \cup {[shape |-> "operator-first", filters |-> A(<<t.operatorFirst>>),
         targets |-> t.targets] : t \in FilterTrees(MaxDepth)}
  \cup {[shape |-> "dimension-first", filters |-> A(<<t.dimensionFirst>>),
         targets |-> t.targets] : t \in FilterTrees(MaxDepth)}
  \cup {[shape |-> "operator-first", filters |-> A(<<s.operatorFirst, t.operatorFirst>>),
         targets |-> s.targets \cup t.targets] : s \in FilterLeaves, t \in FilterLeaves}
  \cup {[shape |-> "dimension-first", filters |-> A(<<s.dimensionFirst, t.dimensionFirst>>),
         targets |-> s.targets \cup t.targets] : s \in FilterLeaves, t \in FilterLeaves}
  \cup {[shape |-> "dimension-first, not child",
         filters |-> A(<<A(<<S("not"), t.dimensionFirst>>)>>),
         targets |-> t.targets] : t \in FilterLeaves}
  \cup {[shape |-> "operator-first, not children",
         filters |-> A(<<A(<<S("not"), A(<<t.operatorFirst>>)>>)>>),
         targets |-> t.targets] : t \in FilterLeaves}
  \cup {[shape |-> "malformed", filters |-> A(<<node>>), targets |-> {}] :
          node \in MalformedNodes}

includeOptions(time_labels) == O([time_labels |-> time_labels])

Includes == {U, includeOptions(U), includeOptions(B(FALSE)), includeOptions(B(TRUE))}

DateStrings ==
  {"2023-12-31", "2024-01-01", "2024-01-31", "2024-02-01",
   "2024-01-01T00:00:00+00:00", "2024-01-01T08:00:00+00:00",
   "2024-01-01T10:00:00+05:00", "2023-12-31T23:00:00-02:00",
   "2024-13-01", "garbage"}

DateRangeNames == Range(predefinedDateRanges) \cup {"yesterday", "7D", ""}

query(site_id, metrics, date_range, dimensions, filters, incl) ==
  [site_id |-> site_id, metrics |-> metrics, date_range |-> date_range,
   dimensions |-> dimensions, filters |-> filters, include |-> incl,
   pagination |-> U]

\* pagination: { limit, offset }, each of them optional
paginationOptions(limit, offset) == O([limit |-> limit, offset |-> offset])

withPagination(q, pagination) == [q EXCEPT !.pagination = pagination]

\* queries that exercise the page-metric rule
PageMetricQueries ==
  {query(S("a.com"), m, S("7d"), d, f, U) :
     m \in MetricLists({"visitors", "scroll_depth", "time_on_page"}),
     d \in DimensionLists({"event:page", "visit:source"}),
     f \in {U, A(<<>>), A(<<pageFilter>>), A(<<goalFilter>>),
            A(<<countryFilter, hasDonePageFilter>>), A(<<notPageFilter>>),
            A(<<pageFilterDimensionFirst>>)}}

\* queries that exercise the goal and revenue rules
GoalMetricQueries ==
  {query(S("a.com"), m, S("7d"), d, f, U) :
     m \in MetricLists({"visitors", "conversion_rate", "group_conversion_rate"})
            \cup MetricLists({"group_conversion_rate", "average_revenue", "total_revenue"}),
     d \in DimensionLists({"event:goal", "visit:source"}),
     f \in {U, A(<<goalFilter>>), A(<<segmentFilter>>), A(<<countryFilter, andGoalFilter>>)}}

\* queries that exercise the percentage rule and the session rule
SessionMetricQueries ==
  {query(S("a.com"), m, S("7d"), d, U, U) :
     m \in MetricLists({"visitors", "percentage", "bounce_rate"})
            \cup MetricLists({"bounce_rate", "views_per_visit", "visit_duration"}),
     d \in DimensionLists({"event:page", "visit:source", "time:day"})}

\* queries that exercise the time-label rule
TimeLabelQueries ==
  {query(S("a.com"), m, S("7d"), d, U, i) :
     m \in MetricLists({"visitors", "bounce_rate"}),
     d \in DimensionLists(DimensionPool), i \in Includes}

\* queries that break several rules at once
MultiRuleQueries ==
  {query(S("a.com"), m, r, d, U, i) :
     m \in MetricLists({"percentage", "scroll_depth", "conversion_rate",
                        "total_revenue", "bounce_rate"}),
     r \in {S("7d"), A(<<"2024-02-01", "2024-01-01">>)},
     d \in {U, A(<<"event:page">>), A(<<"time:day">>)},
     i \in {U, includeOptions(B(TRUE))}}

\* queries that mix page metrics with session metrics
PageSessionQueries ==
  {query(S("a.com"), m, S("7d"), d, f, U) :
     m \in MetricLists({"scroll_depth", "visit_duration"}),
     d \in DimensionLists({"event:page", "visit:source", "time:day"}),
     f \in {U, A(<<pageFilter>>), A(<<notPageFilter>>), A(<<goalFilter>>)}}

\* queries that ask for a page of the results
PaginationQueries ==
  {withPagination(query(S("a.com"), A(<<"visitors">>), S("7d"), U, U, U),
                  paginationOptions(limit, offset)) :
     limit \in {U, N(-1), N(0), N(10), S("10")},
     offset \in {U, N(-1), N(0), N(10), S("10")}}

\* queries that exercise the date-range rule
DateRangeQueries ==
  {query(S("a.com"), A(<<m>>), r, U, U, U) :
     m \in {"visitors", "percentage"},
     r \in {U} \cup {S(n) : n \in DateRangeNames}
             \cup {A(<<start, end>>) : start \in DateStrings, end \in DateStrings}}

\* queries with a required field missing or empty
IncompleteQueries ==
  {query(s, A(m), r, d, U, U) :
     s \in {U, S(""), S("a.com")},
     m \in {<<>>, <<"visitors">>, <<"bounce_rate">>},
     r \in {U, S("7d"), A(<<"2024-02-01", "2024-01-01">>)},
     d \in {U, A(<<"event:page">>)}}

Queries ==
  PageMetricQueries \cup GoalMetricQueries \cup SessionMetricQueries
    \cup TimeLabelQueries \cup MultiRuleQueries \cup PageSessionQueries
    \cup DateRangeQueries \cup IncompleteQueries

NoContent == [kind |-> "none", text |-> ""]

NoQuery == query(U, U, U, U, U, U)

\* the environment: PLAUSIBLE_API_KEY unset, empty or set
Environments == {[PLAUSIBLE_API_KEY |-> key] : key \in {U, S(""), S("key")}}

KeyIsSet == [PLAUSIBLE_API_KEY |-> S("key")]

\* no request to the backend is under way
NoApi == [response |-> U, result |-> U]

\* how a call ends: with a value, or with an Error of some message
returned(value) == [kind |-> "returned", value |-> value, message |-> ""]
thrown(message) == [kind |-> "thrown", value |-> U, message |-> message]

\* no membership search is under way
NoSearch == [dimension |-> "", shape |-> "", targets |-> {}, index |-> U, utils |-> U]

-----------------------------------------------------------------------------
(* The validator called on a query: validateAllParameters applied to the   *)
(* arguments the handler extracts                                          *)

InitV ==
  /\ pc = "called"
  /\ params \in Queries
  /\ schemaIssues = {}
  /\ ran = <<>>
  /\ validationError = Null
  /\ fetched = <<>>
  /\ content = NoContent
  /\ search = NoSearch
  /\ env = KeyIsSet
  /\ api = NoApi

Validate ==
  /\ pc = "called"
  /\ LET outcome == validateAllParameters(validatorArguments(params)) IN
       /\ validationError' = outcome.returned
       /\ pc' = IF outcome.thrown = Null THEN "returned" ELSE "threw"
  /\ ran' = rulesRun(validatorArguments(params))
  /\ UNCHANGED <<params, schemaIssues, fetched, content, search, env, api>>

NextV == Validate

SpecV == InitV /\ [][NextV]_vars

-----------------------------------------------------------------------------
(* The membership search called on a forest: hasFilterForDimension of      *)
(* index.ts and of utils.ts applied to the same filters and dimension      *)

InitF ==
  /\ pc = "search"
  /\ \E input \in SearchInputs, d \in SearchDimensions :
       /\ params = [NoQuery EXCEPT !.filters = input.filters]
       /\ search = [dimension |-> d, shape |-> input.shape, targets |-> input.targets,
                    index |-> U, utils |-> U]
  /\ schemaIssues = {}
  /\ ran = <<>>
  /\ validationError = Null
  /\ fetched = <<>>
  /\ content = NoContent
  /\ env = KeyIsSet
  /\ api = NoApi

Search ==
  /\ pc = "search"
  /\ search' = [search EXCEPT
                  !.index = hasFilterForDimension(params.filters, search.dimension),
                  !.utils = utils_hasFilterForDimension(params.filters, search.dimension)]
  /\ pc' = "searched"
  /\ UNCHANGED <<params, schemaIssues, ran, validationError, fetched, content, env, api>>

NextF == Search

SpecF == InitF /\ [][NextF]_vars

-----------------------------------------------------------------------------
(* The plausible_query tool: the server parses the arguments against the   *)
(* input schema, the handler validates them and posts the query, and the   *)
(* awaited fetch settles                                                   *)

\* arguments a caller of the tool may send
ToolArguments ==
  {query(S("a.com"), m, S("7d"), d, f, U) :
     m \in MetricLists({"visitors", "scroll_depth", "clicks"}),
     d \in DimensionLists({"event:page", "page"}),
     f \in {U, A(<<pageFilter>>), A(<<notPageFilter>>)}}
  \cup {query(S("a.com"), m, S("7d"), d, U, i) :
          m \in MetricLists({"visitors", "bounce_rate"}),
          d \in DimensionLists({"event:page", "time:day"}),
          i \in {U, includeOptions(B(TRUE))}}
  \cup PaginationQueries \cup DateRangeQueries \cup IncompleteQueries

\* JSON texts the backend may answer with, and the values they denote
JSONnull == [k |-> "null", v |-> ""]
SyntaxError == [k |-> "throw", v |-> "SyntaxError"]

resultsOnly == O([results |-> A(<<>>), meta |-> U, query |-> U])
resultsMetaQuery ==
  O([results |-> A(<<>>), meta |-> O([total_rows |-> N(0)]),
     query |-> O([site_id |-> S("b.com")])])

\* JSON.parse(text) and response.json(), over the texts of the model
JSONparse(text) ==
  CASE text = "{\"results\":[]}" -> resultsOnly
    [] text = "{\"results\":[],\"meta\":{\"total_rows\":0},\"query\":{\"site_id\":\"b.com\"}}" ->
         resultsMetaQuery
    [] text = "{\"error\":\"Invalid metric\"}" -> O([error |-> S("Invalid metric")])
    [] text = "{\"error\":\"\"}" -> O([error |-> S("")])
    [] text = "{}" -> O([error |-> U])
    [] text = "[]" -> A(<<>>)
    [] text = "null" -> JSONnull
    [] OTHER -> SyntaxError

\* JSON.stringify(value, null, 2), over the values of the model
JSONstringify(value) ==
  CASE value = resultsOnly -> "{\n  \"results\": []\n}"
    [] value = resultsMetaQuery ->
         "{\n  \"results\": [],\n  \"meta\": {\n    \"total_rows\": 0\n  },\n"
           \o "  \"query\": {\n    \"site_id\": \"b.com\"\n  }\n}"
    [] value = A(<<>>) -> "[]"
    [] value = JSONnull -> "null"

\* the bodies of the answers: of a 2xx answer, and of any other
OkBodies ==
  {"{\"results\":[]}",
   "{\"results\":[],\"meta\":{\"total_rows\":0},\"query\":{\"site_id\":\"b.com\"}}",
   "<html>"}

ErrorBodies ==
  {"{\"error\":\"Invalid metric\"}", "{\"error\":\"\"}", "{}", "[]", "null", "",
   "<html>Bad Gateway</html>"}

\* how the awaited fetch can settle
FetchOutcomes ==
  {[settled |-> "rejected", ok |-> FALSE, status |-> 0, statusText |-> "fetch failed",
    body |-> ""]}
  \cup {[settled |-> "resolved", ok |-> TRUE, status |-> 200, statusText |-> "OK",
          body |-> body] : body \in OkBodies}
  \cup {[settled |-> "resolved", ok |-> FALSE, status |-> st.status,
          statusText |-> st.statusText, body |-> body] :
           st \in {[status |-> 400, statusText |-> "Bad Request"],
                    [status |-> 502, statusText |-> "Bad Gateway"]},
           body \in ErrorBodies}

textContent(kind, text) == [kind |-> kind, text |-> text]

Init ==
  /\ pc = "load"
  /\ env \in Environments
  /\ api = NoApi
  /\ params = NoQuery
  /\ schemaIssues = {}
  /\ ran = <<>>
  /\ validationError = Null
  /\ fetched = <<>>
  /\ content = NoContent
  /\ search = NoSearch

\* a load that checks the API key for undefined only
LoadChecksUndefinedOnly ==
  /\ pc = "load"
  /\ pc' = IF env.PLAUSIBLE_API_KEY = U THEN "crashed" ELSE "loaded"
  /\ UNCHANGED <<params, schemaIssues, ran, validationError, fetched, content, search,
                 env, api>>

\* the module is loaded: the API key is checked before anything else runs
Load ==
  /\ pc = "load"
  /\ pc' = IF env.PLAUSIBLE_API_KEY = U \/ env.PLAUSIBLE_API_KEY = S("")
           THEN "crashed" ELSE "loaded"
  /\ UNCHANGED <<params, schemaIssues, ran, validationError, fetched, content, search,
                 env, api>>

\* server.tool("plausible_query", ...)
RegisterTool ==
  /\ pc = "loaded"
  /\ pc' = "registered"
  /\ UNCHANGED <<params, schemaIssues, ran, validationError, fetched, content, search,
                 env, api>>

\* main(): server.connect(transport)
Connect ==
  /\ pc = "registered"
  /\ pc' = "idle"
  /\ UNCHANGED <<params, schemaIssues, ran, validationError, fetched, content, search,
                 env, api>>

\* a tools/call request arrives: the arguments are parsed against the
\* schema, and the handler is called only when they conform
ToolCall ==
  /\ pc = "idle"
  /\ \E args \in ToolArguments :
       /\ params' = IF schemaCheck(args) = {} THEN schemaParse(args) ELSE args
       /\ schemaIssues' = schemaCheck(args)
       /\ IF schemaCheck(args) = {}
          THEN pc' = "handler" /\ content' = NoContent
          ELSE pc' = "done" /\ content' = textContent("invalid_arguments", "")
  /\ ran' = <<>>
  /\ validationError' = Null
  /\ fetched' = <<>>
  /\ UNCHANGED <<search, env, api>>

\* executeQuery builds the body it posts from the fields that are defined
fullQuery(q) ==
  [site_id |-> q.site_id, metrics |-> q.metrics, date_range |-> q.date_range,
   dimensions |-> q.dimensions, filters |-> q.filters, include |-> q.include,
   pagination |-> q.pagination]

\* a handler that calls validateAllParameters and drops what it returns
HandlerDropsValidationError ==
  /\ pc = "handler"
  /\ validationError' = validateAllParameters(validatorArguments(params)).returned
  /\ ran' = rulesRun(validatorArguments(params))
  /\ pc' = "awaiting"
  /\ fetched' = Append(fetched, fullQuery(params))
  /\ UNCHANGED <<params, schemaIssues, content, search, env, api>>

\* the handler, up to the awaited fetch
Handler ==
  /\ pc = "handler"
  /\ LET outcome == validateAllParameters(validatorArguments(params)) IN
       /\ validationError' = outcome.returned
       /\ IF outcome.thrown # Null
          THEN /\ pc' = "done"
               /\ content' = textContent("thrown", outcome.thrown.name)
               /\ fetched' = fetched
          ELSE IF outcome.returned # Null
          THEN /\ pc' = "done"
               /\ content' = textContent("text",
                    "Parameter validation error: " \o outcome.returned.message
                      \o "\n\n" \o outcome.returned.details)
               /\ fetched' = fetched
          ELSE /\ pc' = "awaiting"
               /\ content' = content
               /\ fetched' = Append(fetched, fullQuery(params))
  /\ ran' = rulesRun(validatorArguments(params))
  /\ UNCHANGED <<params, schemaIssues, search, env, api>>

\* PlausibleClient.query once the fetch has settled
clientQuery(r) ==
  IF r.settled = "rejected" THEN thrown(r.statusText)
  ELSE IF ~r.ok THEN thrown("Plausible API error: " \o r.statusText)
  ELSE IF JSONparse(r.body) = SyntaxError THEN thrown("Unexpected token")
  ELSE returned(JSONparse(r.body))

\* the fetch settles: PlausibleClient.query and the rest of executeQuery
FetchSettles ==
  /\ pc = "awaiting"
  /\ \E r \in FetchOutcomes :
       LET response == clientQuery(r) IN
         /\ api' = [response |-> r, result |-> response]
         /\ content' =
              IF response.kind = "thrown"
              THEN textContent("text", "Error querying Plausible API: " \o response.message)
              ELSE textContent("text", JSONstringify(response.value))
  /\ pc' = "done"
  /\ UNCHANGED <<params, schemaIssues, ran, validationError, fetched, search, env>>

\* the result is sent, the values of the invocation are discarded and the
\* server waits for the next request
Respond ==
  /\ pc = "done"
  /\ pc' = "idle"
  /\ params' = NoQuery
  /\ schemaIssues' = {}
  /\ ran' = <<>>
  /\ validationError' = Null
  /\ fetched' = <<>>
  /\ content' = NoContent
  /\ api' = NoApi
  /\ UNCHANGED <<search, env>>

Next == Load \/ RegisterTool \/ Connect \/ ToolCall \/ Handler \/ FetchSettles \/ Respond

Spec == Init /\ [][Next]_vars

-----------------------------------------------------------------------------
(* The handler called on parameters of any shape: what validation returns  *)
(* or throws, and what the handler makes of it                             *)

\* queries whose filters hold a node that is no filter
MalformedFilterQueries ==
  {query(S("a.com"), A(<<m>>), r, d, A(<<node>>), U) :
     m \in {"visitors", "scroll_depth", "conversion_rate"},
     r \in {S("7d"), A(<<"2024-02-01", "2024-01-01">>)},
     d \in {U, A(<<"event:page">>)},
     node \in MalformedNodes}

HandlerQueries == PageMetricQueries \cup MultiRuleQueries \cup MalformedFilterQueries

InitH ==
  /\ pc = "handler"
  /\ params \in HandlerQueries
  /\ schemaIssues = {}
  /\ ran = <<>>
  /\ validationError = Null
  /\ fetched = <<>>
  /\ content = NoContent
  /\ search = NoSearch
  /\ env = KeyIsSet
  /\ api = NoApi

NextH == Handler \/ FetchSettles

SpecH == InitH /\ [][NextH]_vars

-----------------------------------------------------------------------------
(* executeQuery of api.ts: the query is posted without its debug flag, and  *)
(* the answer is returned with the query, or an Error is thrown            *)

\* PlausibleQuery & { debug?: boolean }
withDebug(q, debug) ==
  [site_id |-> q.site_id, metrics |-> q.metrics, date_range |-> q.date_range,
   dimensions |-> q.dimensions, filters |-> q.filters, include |-> q.include,
   pagination |-> q.pagination, debug |-> debug]

\* const { debug: _debug, ...queryParams } = query
queryParams(q) ==
  [site_id |-> q.site_id, metrics |-> q.metrics, date_range |-> q.date_range,
   dimensions |-> q.dimensions, filters |-> q.filters, include |-> q.include,
   pagination |-> q.pagination]

\* the queries executeQuery is called with
ApiQueries ==
  {withDebug(q, debug) :
     q \in {query(S("a.com"), A(<<"visitors">>), S("7d"), U, U, U),
            query(S("a.com"), A(<<"visitors">>), S("7d"), A(<<"visit:source">>), U, U),
            withPagination(query(S("a.com"), A(<<"visitors">>), S("7d"), U, U, U),
                           paginationOptions(N(10), U))},
     debug \in {U, B(TRUE), B(FALSE)}}

\* the message of the Error thrown for an answer that is not ok
errorMessage(r) ==
  LET errorText == r.body
      failed == "API request failed with status " \o ToString(r.status)
      errorJson == JSONparse(errorText)
      caught == IF errorText # "" THEN errorText ELSE failed
  IN IF errorJson = SyntaxError THEN caught
     ELSE IF errorJson = JSONnull THEN caught
     ELSE IF errorJson.k = "o" /\ errorJson.v.error # U /\ errorJson.v.error # S("")
     THEN errorJson.v.error.v
     ELSE failed

\* executeQuery once the fetch has settled
executeQuery(q, r) ==
  IF r.settled = "rejected" THEN thrown(r.statusText)
  ELSE IF ~r.ok THEN thrown(errorMessage(r))
  ELSE LET data == JSONparse(r.body) IN
       IF data = SyntaxError THEN thrown("Unexpected token")
       ELSE returned(O([data.v EXCEPT !.query = O(queryParams(q))]))

InitA ==
  /\ pc = "execute"
  /\ params \in ApiQueries
  /\ schemaIssues = {}
  /\ ran = <<>>
  /\ validationError = Null
  /\ fetched = <<>>
  /\ content = NoContent
  /\ search = NoSearch
  /\ env = KeyIsSet
  /\ api = NoApi

\* executeQuery up to the awaited fetch
Post ==
  /\ pc = "execute"
  /\ fetched' = Append(fetched, queryParams(params))
  /\ pc' = "posted"
  /\ UNCHANGED <<params, schemaIssues, ran, validationError, content, search, env, api>>

\* the fetch settles and executeQuery returns or throws
Settle ==
  /\ pc = "posted"
  /\ \E r \in FetchOutcomes :
       api' = [response |-> r, result |-> executeQuery(params, r)]
  /\ pc' = "executed"
  /\ UNCHANGED <<params, schemaIssues, ran, validationError, fetched, content, search, env>>

NextA == Post \/ Settle

SpecA == InitA /\ [][NextA]_vars

-----------------------------------------------------------------------------
(* Properties *)

\* str has sub as a substring
contains(str, sub) ==
  \E i \in 1..(Len(str) - Len(sub) + 1) : SubSeq(str, i, i + Len(sub) - 1) = sub

endsWith(str, suffix) ==
  Len(str) >= Len(suffix) /\ SubSeq(str, Len(str) - Len(suffix) + 1, Len(str)) = suffix

\* what the query under validation holds
theMetrics == params.metrics.v
theDimensions == IF params.dimensions = U THEN <<>> ELSE params.dimensions.v
hasMetricIn(names) == \E i \in 1..Len(theMetrics) : theMetrics[i] \in names
hasDimension(name) == \E i \in 1..Len(theDimensions) : theDimensions[i] = name
filterFound(name) == hasFilterForDimension(params.filters, name) = B(TRUE)

\* the error the n-th rule function threw, when validation got that far
ruleError(n) == ran[n].error
reached(n) == pc = "returned" /\ Len(ran) >= n
stoppedAt(n) == pc = "returned" /\ Len(ran) = n /\ validationError = ran[n].error

\* C1: the backend is called only after validation has succeeded: a query
\* is posted only when the arguments conform to the schema, every rule ran
\* without an error and validateAllParameters returned null; when it
\* returned a ValidationError, nothing is posted for that invocation.
C1_BackendOnlyAfterValidation ==
  /\ fetched # <<>> =>
       /\ schemaIssues = {}
       /\ validationError = Null
       /\ Len(ran) = 7
       /\ \A i \in 1..Len(ran) : ran[i].error = Null
       /\ fetched = <<fullQuery(params)>>
  /\ validationError # Null => fetched = <<>> /\ pc = "done"

C1_Witness ==
  /\ pc = "done"
  /\ validationError.name = "ValidationError"
  /\ fetched = <<>>
  /\ contains(content.text, "Parameter validation error: ")

\* C2: a query that is missing site_id, has empty metrics or is missing
\* date_range fails validation with a ValidationError naming the missing
\* field, before any semantic rule runs.
C2_MissingFieldRejected ==
  pc = "returned" =>
    /\ params.site_id \in {U, S("")} =>
         validationError.name = "ValidationError" /\ contains(validationError.message, "site_id")
    /\ Len(theMetrics) = 0 =>
         validationError.name = "ValidationError" /\ contains(validationError.message, "metric")
    /\ params.date_range = U =>
         validationError.name = "ValidationError" /\ contains(validationError.message, "date_range")

\* C3: with scroll_depth or time_on_page among the metrics, the page-metric
\* rule passes exactly when event:page is a dimension or the filter search
\* finds event:page; otherwise it throws the 'require event:page' error,
\* which is what validation returns when it gets to that rule.
C3_PageMetricsNeedEventPage ==
  LET present == hasDimension("event:page") \/ filterFound("event:page")
      rule == validatePageMetrics(theMetrics, params.dimensions, params.filters)
  IN hasMetricIn({"scroll_depth", "time_on_page"}) =>
       /\ (rule = Null) <=> present
       /\ ~present => rule.name = "ValidationError" /\ endsWith(rule.message, " require event:page")
       /\ reached(3) => ruleError(3) = rule
       /\ reached(3) /\ ~present => stoppedAt(3)

C3_Witness ==
  /\ pc = "returned"
  /\ params.metrics = A(<<"scroll_depth">>)
  /\ params.dimensions = U
  /\ params.filters = A(<<pageFilter>>)
  /\ validationError = Null

C5_PercentageNeedsDimensions ==
  LET rule == validatePercentageMetric(theMetrics, params.dimensions)
  IN hasMetricIn({"percentage"}) =>
       /\ Len(theDimensions) = 0 =>
            /\ rule.name = "ValidationError"
            /\ rule.message = "Metric 'percentage' requires dimensions"
            /\ reached(2) => stoppedAt(2)
       /\ Len(theDimensions) > 0 =>
            /\ rule = Null
            /\ validationError.message # "Metric 'percentage' requires dimensions"
       /\ reached(2) => ruleError(2) = rule

C5_Witness ==
  /\ pc = "returned"
  /\ params.metrics = A(<<"visitors", "percentage">>)
  /\ params.dimensions = A(<<>>)
  /\ validationError.message = "Metric 'percentage' requires dimensions"

\* C6: a query with a session metric and a dimension starting with 'event:'
\* or 'time:' is never accepted: validation returns the session/event
\* conflict error, unless an earlier rule failed first.
C6_SessionMetricsExcludeEventDimensions ==
  LET conflict ==
        /\ hasMetricIn({"bounce_rate", "views_per_visit", "visit_duration"})
        /\ \E i \in 1..Len(theDimensions) :
             startsWith(theDimensions[i], "event:") \/ startsWith(theDimensions[i], "time:")
  IN pc = "returned" /\ conflict =>
       /\ validationError.name = "ValidationError"
       /\ Len(ran) <= 6
       /\ validationError = ran[Len(ran)].error
       /\ Len(ran) = 6 =>
            validationError.message = "Session metrics cannot be mixed with event dimensions"

C6_Witness ==
  /\ pc = "returned"
  /\ params.metrics = A(<<"visit_duration">>)
  /\ params.dimensions = A(<<"visit:source", "time:day">>)
  /\ validationError.message = "Session metrics cannot be mixed with event dimensions"

\* C7: when the session/event rule fails, the error names every session
\* metric used and every conflicting dimension used (those starting with
\* 'event:' and those starting with 'time:'), and the list of dimensions it
\* gives is not empty.
C7_ConflictListsBothSets ==
  pc = "returned"
    /\ validationError.message = "Session metrics cannot be mixed with event dimensions" =>
      /\ \A i \in 1..Len(theMetrics) :
           theMetrics[i] \in {"bounce_rate", "views_per_visit", "visit_duration"} =>
             contains(validationError.details, theMetrics[i])
      /\ \A i \in 1..Len(theDimensions) :
           startsWith(theDimensions[i], "event:") \/ startsWith(theDimensions[i], "time:") =>
             contains(validationError.details, theDimensions[i])
      /\ ~contains(validationError.details, "event-level dimensions ()")

\* C8: with include.time_labels = true the time-label rule passes exactly
\* when some dimension is 'time' or starts with 'time:'; with include
\* absent, or time_labels false or absent, the rule never fails.
C8_TimeLabelsNeedTimeDimension ==
  LET requested == params.include # U /\ params.include.v.time_labels = B(TRUE)
      timeDimension ==
        \E i \in 1..Len(theDimensions) :
          theDimensions[i] = "time" \/ startsWith(theDimensions[i], "time:")
      rule == validateTimeLabelRequirements(params.include, params.dimensions)
  IN /\ requested => ((rule = Null) <=> timeDimension)
     /\ requested /\ ~timeDimension =>
          rule.name = "ValidationError" /\ rule.message = "time_labels requires a time dimension"
     /\ ~requested => rule = Null
     /\ reached(7) => stoppedAt(7) /\ validationError = rule

C8_Witness ==
  /\ pc = "returned"
  /\ params.include = includeOptions(B(TRUE))
  /\ params.dimensions = A(<<"visit:source", "time">>)
  /\ Len(ran) = 7
  /\ validationError = Null

\* the instant each well-formed date of DateStrings denotes, in hours from
\* 2024-01-01T00:00:00Z
instantOf(str) ==
  CASE str = "2023-12-31" -> -24
    [] str = "2024-01-01" -> 0
    [] str = "2024-01-31" -> 720
    [] str = "2024-02-01" -> 744
    [] str = "2024-01-01T00:00:00+00:00" -> 0
    [] str = "2024-01-01T08:00:00+00:00" -> 8
    [] str = "2024-01-01T10:00:00+05:00" -> 5
    [] str = "2023-12-31T23:00:00-02:00" -> 1

wellFormedDate(str) == str \in DateStrings \ {"2024-13-01", "garbage"}

\* C9: for a custom range [start, end] of well-formed dates, the date-range
\* rule throws the invalid-date-range error when start is at or after end
\* (equal instants included) and passes when start is before end; the
\* order is that of the instants the dates denote, not of the strings.
C9_CustomRangeStartBeforeEnd ==
  params.date_range.k = "a" =>
    LET start == params.date_range.v[1]
        end == params.date_range.v[2]
        rule == validateDateRange(params.date_range)
    IN /\ wellFormedDate(start) /\ wellFormedDate(end) =>
            /\ instantOf(start) >= instantOf(end) =>
                 rule.name = "ValidationError" /\ rule.message = "Invalid date range"
            /\ instantOf(start) < instantOf(end) => rule = Null
       /\ pc = "returned" => ruleError(1) = rule
       /\ pc = "returned" /\ rule # Null => stoppedAt(1)

C9_Witness ==
  /\ pc = "returned"
  /\ params.date_range = A(<<"2024-01-01T10:00:00+05:00", "2024-01-01T08:00:00+00:00">>)
  /\ params.metrics = A(<<"visitors">>)
  /\ validationError = Null

\* C10: a date_range given as a name is accepted only when it is one of
\* day, 7d, 28d, 30d, 91d, month, 6mo, 12mo, year, all: any other name is
\* rejected with an issue on date_range and nothing is posted.
C10_NamedRangeInEnumeration ==
  LET named == params.date_range.k = "s"
      known == params.date_range.v \in
                 {"day", "7d", "28d", "30d", "91d", "month", "6mo", "12mo", "year", "all"}
  IN pc # "idle" /\ named =>
       /\ ~known =>
            /\ "date_range" \in schemaIssues
            /\ pc = "done"
            /\ ran = <<>>
            /\ fetched = <<>>
       /\ known => "date_range" \notin schemaIssues
       /\ fetched # <<>> => known

C10_Witness ==
  /\ pc = "done"
  /\ params.date_range = S("yesterday")
  /\ "date_range" \in schemaIssues
  /\ fetched = <<>>

\* C11: when a query violates several rules at once, validateAllParameters
\* returns exactly the error of the first violated rule in the order date
\* range, percentage, page metrics, goal metrics, revenue metrics,
\* session/event conflict, time labels; the rules after it are not called
\* and nothing of their errors is in what is returned.
C11_FirstViolatedRuleOnly ==
  pc = "returned" =>
    LET p == validatorArguments(params)
        errors == <<validateDateRange(p.dateRange),
                    validatePercentageMetric(p.metrics, p.dimensions),
                    validatePageMetrics(p.metrics, p.dimensions, p.filters),
                    validateGoalMetrics(p.metrics, p.dimensions, p.filters),
                    validateRevenueMetrics(p.metrics, p.dimensions, p.filters),
                    validateSessionMetricsWithEventDimensions(p.metrics, p.dimensions),
                    validateTimeLabelRequirements(p.include, p.dimensions)>>
        violated == {i \in 1..7 : errors[i] # Null}
    IN IF violated = {} THEN validationError = Null /\ Len(ran) = 7
       ELSE LET first == CHOOSE i \in violated : \A j \in violated : i <= j IN
            /\ validationError = errors[first]
            /\ Len(ran) = first
            /\ \A j \in violated :
                 errors[j].message # errors[first].message =>
                   /\ ~contains(validationError.message, errors[j].message)
                   /\ ~contains(validationError.details, errors[j].message)

C11_Witness ==
  /\ pc = "returned"
  /\ params.metrics = A(<<"percentage", "scroll_depth">>)
  /\ params.dimensions = U
  /\ params.date_range = S("7d")
  /\ params.include = includeOptions(B(TRUE))
  /\ validationError.message = "Metric 'percentage' requires dimensions"
  /\ Len(ran) = 2

\* what a finished search was made over
theForest == params.filters
theNode == params.filters.v[1]
singleNode == params.filters.k = "a" /\ Len(params.filters.v) = 1
isBoolean(result) == result = B(TRUE) \/ result = B(FALSE)

C13_AndOrAlike ==
  pc = "searched" /\ search.shape \in {"operator-first", "dimension-first"}
    /\ singleNode /\ (Idx(theNode, 0) = S("and") \/ Idx(theNode, 0) = S("or")) =>
      LET children == theNode.v[2]
          other == IF Idx(theNode, 0) = S("and") THEN "or" ELSE "and"
          swapped == A(<<A(<<S(other), children>>)>>)
      IN /\ search.index = hasFilterForDimension(swapped, search.dimension)
         /\ search.utils = utils_hasFilterForDimension(swapped, search.dimension)
         /\ (search.index = B(TRUE)) <=>
              \E i \in 1..Len(children.v) :
                hasFilterForDimension(A(<<children.v[i]>>), search.dimension) = B(TRUE)
         /\ (search.utils = B(TRUE)) <=>
              \E i \in 1..Len(children.v) :
                utils_hasFilterForDimension(A(<<children.v[i]>>), search.dimension) = B(TRUE)
         /\ isBoolean(search.index) /\ isBoolean(search.utils)

C13_Witness ==
  /\ pc = "searched"
  /\ theForest = A(<<logicalOf("or", <<segmentOf, simpleOn("event:goal")>>).operatorFirst>>)
  /\ search.dimension = "event:goal"
  /\ search.index = B(TRUE)

\* C14: for a node (not, child) wrapping exactly one child filter, the
\* search for D returns what the search for D on that child returns; in
\* particular (not, Simple filter on D) is found for D.
C14_NotUnwrapsItsChild ==
  pc = "searched" /\ search.shape \in {"operator-first", "dimension-first, not child"}
    /\ singleNode /\ Idx(theNode, 0) = S("not") =>
      LET child == theNode.v[2] IN
      /\ search.index = hasFilterForDimension(A(<<child>>), search.dimension)
      /\ search.utils = utils_hasFilterForDimension(A(<<child>>), search.dimension)
      /\ search.shape = "operator-first" /\ child = simpleOn(search.dimension).operatorFirst =>
           search.index = B(TRUE)
      /\ search.shape = "dimension-first, not child"
           /\ child = simpleOn(search.dimension).dimensionFirst =>
           search.utils = B(TRUE)

\* C15: a behavioral node whose payload is a goal condition is found for
\* event:goal, one whose payload is a page condition for event:page, and
\* for no other dimension, in both shapes of the node: payload nested as
\* one inner tuple, and payload flattened into the node.
C15_BehavioralBothShapes ==
  pc = "searched" =>
    \A op \in Range(behavioralOperators), type \in {"goal", "page"} :
      theForest \in {A(<<behavioralOn(op, type).operatorFirst>>),
                     A(<<behavioralOn(op, type).dimensionFirst>>)} =>
        /\ (search.index = B(TRUE)) <=> (search.dimension = "event:" \o type)
        /\ (search.utils = B(TRUE)) <=> (search.dimension = "event:" \o type)

\* C16: a forest made only of Segment filters is found for no name D, the
\* strings 'is' and 'segment' included.
C16_SegmentNeverMatches ==
  pc = "searched"
    /\ theForest \in {A(<<segmentFilter>>), A(<<segmentFilter, segmentFilter>>)} =>
      search.index = B(FALSE) /\ search.utils = B(FALSE)

\* C17: the search never raises: for a malformed node (wrong arity, missing
\* payload, not a sequence, unrecognized operator) it returns false, also
\* when the node with the unrecognized operator has a matching child.
C17_MalformedNodeNotMatched ==
  pc = "searched" /\ search.shape = "malformed" =>
    search.index = B(FALSE) /\ search.utils = B(FALSE)

\* C18: {site_id: a.com, metrics: [scroll_depth], date_range: 7d} fails
\* with 'require event:page'; with filters [(event:page, is, [/x])] and no
\* dimensions it passes validation, and so it does with dimensions
\* [event:page].
C18_DimensionFirstFilterSatisfies ==
  pc = "returned" /\ params.metrics = A(<<"scroll_depth">>) /\ params.date_range = S("7d") =>
    /\ params.dimensions = U /\ params.filters = U =>
         endsWith(validationError.message, " require event:page")
    /\ params.dimensions = U /\ params.filters = A(<<pageFilterDimensionFirst>>) =>
         validationError = Null
    /\ params.dimensions = A(<<"event:page">>) /\ params.filters = U =>
         validationError = Null

\* what the backend answers when the request succeeds, as the text the
\* tool returns
successfulBodies ==
  {JSONstringify(JSONparse(body)) : body \in {b \in OkBodies : JSONparse(b) # SyntaxError}}

\* C20: an error of the backend call (network failure, non-2xx status,
\* malformed JSON body) comes out of the validate-then-execute operation as
\* a raised error: a normal result returned after the query was posted
\* carries a response of the backend, never the text of an error.
C20_BackendErrorRaisedUnchanged ==
  pc = "done" /\ fetched # <<>> /\ content.kind = "text" =>
    content.text \in successfulBodies

\* C26: with PLAUSIBLE_API_KEY undefined or empty the process raises while
\* the module loads: the tool is never registered, the transport never
\* connected, no tool call is taken and nothing is posted.
C26_NoKeyNoServer ==
  env.PLAUSIBLE_API_KEY \in {U, S("")} =>
    /\ pc \in {"load", "crashed"}
    /\ params = NoQuery
    /\ fetched = <<>>
    /\ content = NoContent

C26_Witness ==
  /\ pc = "crashed"
  /\ env.PLAUSIBLE_API_KEY = S("")

\* C30: every custom date range the input schema accepts (two strings of
\* the ISO pattern, parsed start before parsed end) passes validateDateRange,
\* and every pair validateDateRange rejects is rejected by the schema.
C30_SchemaRangeImpliesValidatorRange ==
  pc = "returned" /\ params.date_range.k = "a" =>
    /\ datePair(params.date_range) => ruleError(1) = Null
    /\ ruleError(1) # Null => ~datePair(params.date_range)

C30_Witness ==
  /\ pc = "returned"
  /\ params.date_range = A(<<"2023-12-31T23:00:00-02:00", "2024-01-01T08:00:00+00:00">>)
  /\ datePair(params.date_range)
  /\ ruleError(1) = Null
  /\ validationError = Null

\* C28: the bare dimension 'time' does not trigger the session/event
\* conflict: with a session metric and include.time_labels = true, and the
\* five earlier rules passing, dimensions ['time'] pass validation, any
\* dimension 'time:<unit>' makes the session rule fail, and a query that
\* passes has 'time' as its only time dimension.
C28_BareTimeWithSessionMetric ==
  LET session == hasMetricIn({"bounce_rate", "views_per_visit", "visit_duration"})
      requested == params.include # U /\ params.include.v.time_labels = B(TRUE)
      timeUnit(d) == startsWith(d, "time:")
  IN pc = "returned" /\ session /\ requested
       /\ Len(ran) >= 5 /\ (\A i \in 1..5 : ruleError(i) = Null) =>
         /\ theDimensions = <<"time">> => validationError = Null /\ Len(ran) = 7
         /\ (\E i \in 1..Len(theDimensions) : timeUnit(theDimensions[i])) =>
              /\ stoppedAt(6)
              /\ validationError.message = "Session metrics cannot be mixed with event dimensions"
         /\ validationError = Null =>
              /\ hasDimension("time")
              /\ \A i \in 1..Len(theDimensions) : ~timeUnit(theDimensions[i])

C28_Witness ==
  /\ pc = "returned"
  /\ params.metrics = A(<<"visitors", "bounce_rate">>)
  /\ params.include = includeOptions(B(TRUE))
  /\ params.dimensions = A(<<"time">>)
  /\ Len(ran) = 7
  /\ validationError = Null

\* a page metric together with a session metric
pageAndSessionMetrics ==
  /\ hasMetricIn({"scroll_depth", "time_on_page"})
  /\ hasMetricIn({"bounce_rate", "views_per_visit", "visit_duration"})

\* some dimension starts with 'event:' or 'time:'
hasEventOrTimeDimension ==
  \E i \in 1..Len(theDimensions) :
    startsWith(theDimensions[i], "event:") \/ startsWith(theDimensions[i], "time:")

logicalNode(node) ==
  /\ node.k = "a"
  /\ Len(node.v) = 2
  /\ isOneOf(node.v[1], logicalOperators)
  /\ isArray(node.v[2])

\* C29: for every filter the input schema accepts of the form (logical
\* operator, sequence of child filters) with operator and, or, or not,
\* hasFilterForDimension of index.ts finds D whenever some child is a
\* Simple filter on D, and gives the same result whichever of the three
\* operators is written.
C29_SchemaAndSearchAgreeOnLogical ==
  pc = "searched" /\ singleNode /\ filterSchema(theNode) /\ logicalNode(theNode)
    /\ search.dimension \in {"event:page", "event:goal", "visit:country"} =>
      LET children == theNode.v[2] IN
        /\ (\E i \in 1..Len(children.v) :
              children.v[i] = simpleOn(search.dimension).operatorFirst) =>
             search.index = B(TRUE)
        /\ \A op \in {"and", "or", "not"} :
             hasFilterForDimension(A(<<A(<<S(op), children>>)>>), search.dimension)
               = search.index

\* the request was posted and the backend answered it with a JSON body
\* and a 2xx status
backendSucceeded ==
  /\ pc = "done"
  /\ fetched # <<>>
  /\ api.response.settled = "resolved"
  /\ api.response.ok
  /\ JSONparse(api.response.body) # SyntaxError

\* C21: on a successful backend response the value returned to the caller
\* has the results and the meta of the backend's response unchanged and a
\* query field equal to the query that was posted: the text the tool
\* returns is the JSON text of such a value.
C21_ResponseAnnotatedWithQuery ==
  backendSucceeded =>
    LET data == JSONparse(api.response.body).v
        result == api.result.value.v
    IN /\ api.result.kind = "returned"
       /\ content.text = JSONstringify(api.result.value)
       /\ result.results = data.results
       /\ result.meta = data.meta
       /\ result.query = O(fetched[1])

\* C22: a failed request to the backend is retried: an error is reported
\* to the caller only after the request was sent again, at least once and
\* at most 3 times.
C22_FailedRequestRetried ==
  pc = "done" /\ fetched # <<>> /\ api.result.kind = "thrown" =>
    /\ Len(fetched) >= 2
    /\ Len(fetched) <= 4
    /\ \A i \in 1..Len(fetched) : fetched[i] = fetched[1]

\* a limit or offset that is a number below zero
negative(value) == value.k = "n" /\ value.v < 0

\* C23: a query forwarded to the backend never carries a negative
\* pagination limit or offset: every query with one is rejected before the
\* backend is called.
C23_NoNegativePaginationForwarded ==
  /\ \A i \in 1..Len(fetched) :
       fetched[i].pagination # U =>
         /\ ~negative(fetched[i].pagination.v.limit)
         /\ ~negative(fetched[i].pagination.v.offset)
  /\ pc \in {"awaiting", "done"} /\ params.pagination # U /\ params.pagination.k = "o"
       /\ (negative(params.pagination.v.limit) \/ negative(params.pagination.v.offset)) =>
         fetched = <<>>

\* what the body of an answer is: JSON with a non-empty error field, JSON
\* without one, empty, or no JSON at all
bodyKind(body) ==
  CASE body = "{\"error\":\"Invalid metric\"}" -> "json, error"
    [] body \in {"{\"error\":\"\"}", "{}", "[]", "null"} -> "json, no error"
    [] body = "" -> "empty"
    [] OTHER -> "no json"

\* C24: for a non-2xx answer executeQuery of api.ts throws an Error whose
\* message is the error field of the body when the body is JSON with a
\* non-empty error field, the body itself when it is not JSON and not
\* empty, and otherwise 'API request failed with status <status>'.
C24_NonOkErrorMessage ==
  pc = "executed" /\ api.response.settled = "resolved" /\ ~api.response.ok =>
    /\ api.result.kind = "thrown"
    /\ api.result.message =
         CASE bodyKind(api.response.body) = "json, error" -> "Invalid metric"
           [] bodyKind(api.response.body) = "no json" -> api.response.body
           [] OTHER -> "API request failed with status " \o ToString(api.response.status)

\* C25: validateAllParameters returns the ValidationError of a violated
\* rule as a value and null when every rule passes, and any other exception
\* raised during validation leaves it and the handler; the handler turns a
\* returned ValidationError into the normal text result 'Parameter
\* validation error: <message>' followed by the details, and posts nothing.
C25_ValidationErrorReturnedOthersRaised ==
  pc \in {"awaiting", "done"} =>
    LET last == ran[Len(ran)].error IN
      /\ last.name = "ValidationError" =>
           /\ validationError = last
           /\ pc = "done"
           /\ content = textContent("text",
                "Parameter validation error: " \o last.message \o "\n\n" \o last.details)
           /\ fetched = <<>>
      /\ last = Null =>
           /\ Len(ran) = 7
           /\ validationError = Null
           /\ content.kind # "thrown"
           /\ fetched = <<fullQuery(params)>>
      /\ last # Null /\ last.name # "ValidationError" =>
           /\ validationError = Null
           /\ pc = "done"
           /\ content = textContent("thrown", last.name)
           /\ fetched = <<>>

C25_Witness ==
  /\ pc = "done"
  /\ params.metrics = A(<<"scroll_depth">>)
  /\ params.filters = A(<<A(<<S("has_done")>>)>>)
  /\ ran[Len(ran)].rule = "validatePageMetrics"
  /\ content = textContent("thrown", "TypeError")
  /\ fetched = <<>>

====
